---- MODULE Spec2Model ----
(***************************************************************************)
(* Model of libx11_wrapper (src/libx11_wrapper/_raw.py, _interface.py):    *)
(* the property transport (GetWindowProperty's chunked read loop), the     *)
(* Window accessors built on it (text properties, pid, class hint, icon,   *)
(* all_windows), the icon codec inside the icon getter and setter, and the *)
(* Display life cycle.                                                     *)
(*                                                                         *)
(* The X server is modelled by what the core protocol says a request does: *)
(* a property is absent or a record of its type atom, its format (bits per *)
(* item) and its value as a sequence of bytes.                             *)
(***************************************************************************)
EXTENDS Integers, Sequences, FiniteSets, TLC

VARIABLES
    byteorder,    \* byte order of the machine running the client
    \* ---- icon codec on its own (Window.icon getter/setter loops)
    icons,        \* the icon set handed to the setter: sequence of images
    words,        \* the flat array the setter builds
    decoded,      \* what the getter's loop makes of words
    cpc,          \* "start" | "encoded" | "decoded"
    \* ---- GetWindowProperty's read loop
    gprop,        \* the property on the server
    expected,     \* the expected return type the caller passed
    expected_return_type,  \* the local of that name: the type the reads request
    long_offset,  \* location of the next chunk, in 32-bit units
    chunks,       \* list of arrays read so far
    gpc,          \* "call" | "loop" | "done"
    gret,         \* outcome of the call
    \* ---- a Window handle and the window's properties on the server
    self,         \* the window the handle names (self._window)
    props,        \* property name -> <<>> (absent) or <<[type, format, data]>>
    pc,           \* "idle", or the next statement of the icon setter
    op,           \* the accessor called last
    ret,          \* its outcome
    reqs,         \* the requests it issued on the window, in order
    new_icon,     \* icon setter: the icon set handed in (value)
    flat,         \* icon setter: the flat array built from it (data)
    backup,       \* icon setter: the snapshot taken before the writes
    before,       \* props when the icon setter was called
    fault,        \* icon setter: the statement that raised, "" if none
    \* ---- a Display object and the Xlib connection behind it
    display,      \* self._display: "unset" | "NULL" | "open" | "None"
    conn,         \* the connection: "none" | "open" | "closed"
    alive,        \* the process has not been killed by a fault in Xlib
    closed,       \* close() has been called on the object
    dop,          \* the method called last
    dret,         \* its outcome
    dreqs,        \* the Xlib calls it made, with the display they were given
    nopen,        \* displays XOpenDisplay has opened
    nclose,       \* calls of XCloseDisplay
    ncalls        \* methods called so far

codecVars == <<icons, words, decoded, cpc>>
getVars == <<gprop, expected, expected_return_type, long_offset, chunks, gpc, gret>>
setterVars == <<new_icon, flat, backup, before, fault>>
winVars == <<self, props, pc, op, ret, reqs, setterVars>>
dpyVars == <<display, conn, alive, closed, dop, dret, dreqs, nopen, nclose, ncalls>>
vars == <<byteorder, codecVars, getVars, winVars, dpyVars>>

-----------------------------------------------------------------------------
(* Bounds *)

\* most images in one icon set
MaxImages == 3
\* most 32-bit items of a property in the read-loop specification
MaxItems == 5
\* most 8-bit items of a property in the read-loop specification
MaxChars == 9
\* Maximum length of a single read, in 32-bit units.  The source reads 65536
\* units at a time; the model reads 2, so that a value of a few items spans
\* several chunks.
long_length == 2
\* most methods called on one Display object
MaxCalls == 4

-----------------------------------------------------------------------------
(* Sequences and bytes *)

\* An optional value (Python's None or a value) is <<>> or <<v>>; the outcome
\* of a call is the exception it raised ("" when it returned) and its value.
Raise(e) == [exc |-> e, val |-> <<>>]

Return(v) == [exc |-> "", val |-> <<v>>]

ReturnNone == [exc |-> "", val |-> <<>>]

\* no call has been made yet
Pending == [exc |-> "pending", val |-> <<>>]

RECURSIVE Concat(_)
Concat(ss) == IF ss = <<>> THEN <<>> ELSE Head(ss) \o Concat(Tail(ss))

Slice(s, from, to) == [i \in 1..(IF to >= from THEN to - from + 1 ELSE 0) |-> s[from + i - 1]]

Drop(s, n) == IF n >= Len(s) THEN <<>> ELSE SubSeq(s, n + 1, Len(s))

ByteOrders == {"little", "big"}

\* a signed char / the top byte of a signed word
Signed8(b) == IF b >= 128 THEN b - 256 ELSE b

Unsigned8(b) == b % 256

\* byte k (0 = least significant) of a two's complement integer
ByteAt(w, k) == (w \div (256 ^ k)) % 256

\* array.array("i", <4 bytes>): one native signed 32-bit integer
WordOfBytes(b, order) ==
    IF order = "little"
    THEN b[1] + 256 * b[2] + 65536 * b[3] + 16777216 * Signed8(b[4])
    ELSE b[4] + 256 * b[3] + 65536 * b[2] + 16777216 * Signed8(b[1])

\* array.array("i", [w]).tobytes()
BytesOfWord(w, order) ==
    IF order = "little"
    THEN <<ByteAt(w, 0), ByteAt(w, 1), ByteAt(w, 2), ByteAt(w, 3)>>
    ELSE <<ByteAt(w, 3), ByteAt(w, 2), ByteAt(w, 1), ByteAt(w, 0)>>

\* array.array(find_int_typecode(32), <bytes>)
ArrayFromBytes(bytes, order) ==
    [i \in 1..(Len(bytes) \div 4) |-> WordOfBytes(Slice(bytes, 4 * i - 3, 4 * i), order)]

\* array.array.tobytes() of an array of 32-bit items
ArrayToBytes(arr, order) == Concat([i \in 1..Len(arr) |-> BytesOfWord(arr[i], order)])

-----------------------------------------------------------------------------
(* Icon codec: the loops of Window.icon's setter and getter *)

\* (width, height) of the images; im.size
Sizes == {<<1, 1>>, <<2, 1>>, <<1, 2>>}

\* (red, green, blue, alpha) of a pixel
Pixels == {<<255, 0, 0, 255>>, <<1, 2, 3, 4>>, <<16, 32, 64, 128>>}

\* PIL's im.tobytes() of an RGBA image: 4 bytes per pixel, row major
ImageBytes(size) ==
    {Concat(p) : p \in [1..(size[1] * size[2]) -> Pixels]}

Images == UNION {{[size |-> s, bytes |-> b] : b \in ImageBytes(s)} : s \in Sizes}

\* a dict keeps insertion order: a sequence of images of distinct sizes
IconSets ==
    UNION {{v \in [1..n -> Images] :
               \A i, j \in 1..n : i # j => v[i].size # v[j].size} : n \in 1..MaxImages}

\* output[size] = image
DictSet(d, k, v) == [x \in (DOMAIN d) \cup {k} |-> IF x = k THEN v ELSE d[x]]

EmptyDict == [x \in {} |-> <<>>]

RECURSIVE AsDict(_)
AsDict(value) ==
    IF value = <<>> THEN EmptyDict
    ELSE LET n == Len(value)
         IN DictSet(AsDict(SubSeq(value, 1, n - 1)), value[n].size, value[n].bytes)

\* IconEncode with the header written as (height, width)
IconEncode_SwappedHeader(value, order) ==
    IF value = <<>> THEN Raise("IndexError")
    ELSE Return(Concat([i \in 1..Len(value) |->
                 <<value[i].size[2], value[i].size[1]>>
                 \o ArrayFromBytes(value[i].bytes, order)]))

\* the setter's loop over value.items() and the final sum(data[1:], data[0])
IconEncode(value, order) ==
    IF value = <<>> THEN Raise("IndexError")
    ELSE Return(Concat([i \in 1..Len(value) |->
                 <<value[i].size[1], value[i].size[2]>>
                 \o ArrayFromBytes(value[i].bytes, order)]))

\* the getter's "while data:" loop
RECURSIVE IconDecode(_, _, _)
IconDecode(data, output, order) ==
    IF data = <<>> THEN Return(output)
    ELSE IF Len(data) < 2 THEN Raise("IndexError")
    ELSE LET width == data[1]
             height == data[2]
             image_data == Slice(data, 3, IF 2 + width * height > Len(data)
                                          THEN Len(data) ELSE 2 + width * height)
         IN IF width < 0 \/ height < 0 \/ Len(image_data) < width * height
            THEN Raise("ValueError")
            ELSE IconDecode(Drop(data, 2 + width * height),
                            DictSet(output, <<width, height>>,
                                    ArrayToBytes(image_data, order)),
                            order)

CodecInit ==
    /\ icons \in IconSets
    /\ words = Pending
    /\ decoded = Pending
    /\ cpc = "start"

CodecEncode ==
    /\ cpc = "start"
    /\ words' = IconEncode(icons, byteorder)
    /\ cpc' = "encoded"
    /\ UNCHANGED <<icons, decoded>>

CodecDecode ==
    /\ cpc = "encoded"
    /\ words.exc = ""
    /\ decoded' = IconDecode(words.val[1], EmptyDict, byteorder)
    /\ cpc' = "decoded"
    /\ UNCHANGED <<icons, words>>

-----------------------------------------------------------------------------
(* The X server's side of a property, and GetWindowProperty's read loop *)

\* the atom 0, which is both None and, as a requested type, AnyPropertyType
AnyPropertyType == "None"

\* the reply to a GetProperty request with delete False (X11 protocol:
\* N bytes stored, I = 4 * offset, T = N - I, L = MIN(T, 4 * length),
\* A = N - (I + L)); an absent property, and a request the server rejects,
\* leave the null atom in actual_type_return; a property whose type is not
\* the requested one comes back with its type, its format, its length in
\* bytes as bytes_after, and no items
XGetWindowProperty(p, offset, length, req_type) ==
    LET absent == [actual_type |-> "None", actual_format |-> 0, nitems |-> 0,
                   bytes_after |-> 0, prop |-> <<>>]
    IN IF p = <<>> THEN absent
       ELSE IF req_type # AnyPropertyType /\ req_type # p[1].type
       THEN [actual_type |-> p[1].type, actual_format |-> p[1].format,
             nitems |-> 0, bytes_after |-> Len(p[1].data), prop |-> <<>>]
       ELSE LET N == Len(p[1].data)
                I == 4 * offset
                T == N - I
                L == IF T < 4 * length THEN T ELSE 4 * length
                A == N - (I + L)
            IN IF T < 0 THEN absent
               ELSE [actual_type |-> p[1].type,
                     actual_format |-> p[1].format,
                     nitems |-> L \div (p[1].format \div 8),
                     bytes_after |-> A,
                     prop |-> Slice(p[1].data, I + 1, I + L)]

\* array.array(typecode, prop_arr[:]) for the two formats that get that far:
\* c_char items become signed chars, format 32 items signed 32-bit integers
ChunkArray(reply, order) ==
    IF reply.actual_format = 8
    THEN [i \in 1..reply.nitems |-> Signed8(reply.prop[i])]
    ELSE ArrayFromBytes(Slice(reply.prop, 1, 4 * reply.nitems), order)

\* lines 143-175: what one pass of the loop does with the reply to its read;
\* next is where the following read starts
ReplyStep(reply, offset, next, read, order) ==
    LET stop(r) == [done |-> TRUE, ret |-> r, long_offset |-> offset, chunks |-> read]
    IN IF reply.actual_type = "None" THEN stop(ReturnNone)
       ELSE IF reply.actual_format = 16 THEN stop(Raise("NameError"))
       ELSE IF reply.actual_format \notin {8, 32} THEN stop(Raise("RuntimeError"))
       ELSE LET now == Append(read, ChunkArray(reply, order))
            IN IF reply.bytes_after = 0
               THEN [done |-> TRUE, ret |-> Return(Concat(now)),
                     long_offset |-> offset, chunks |-> now]
               ELSE [done |-> FALSE, ret |-> Pending,
                     long_offset |-> next, chunks |-> now]

\* GetStep with the offset advanced in bytes instead of 32-bit units
GetStep_ByteOffset(p, offset, length, read, req_type, order) ==
    ReplyStep(XGetWindowProperty(p, offset, length, req_type),
              offset, offset + 4 * length, read, order)

\* one pass of the "while True:" loop: a read of at most length units at
\* offset that requests the type req_type
GetStep(p, offset, length, read, req_type, order) ==
    ReplyStep(XGetWindowProperty(p, offset, length, req_type),
              offset, offset + length, read, order)

RECURSIVE GetLoop(_, _, _, _, _, _)
GetLoop(p, offset, length, read, req_type, order) ==
    LET step == GetStep(p, offset, length, read, req_type, order)
    IN IF step.done THEN step.ret
       ELSE GetLoop(p, step.long_offset, length, step.chunks, req_type, order)

\* the number of bounded reads the loop issues
RECURSIVE GetPasses(_, _, _, _, _, _)
GetPasses(p, offset, length, read, req_type, order) ==
    LET step == GetStep(p, offset, length, read, req_type, order)
    IN IF step.done THEN 1
       ELSE 1 + GetPasses(p, step.long_offset, length, step.chunks, req_type, order)

\* RequestedType handing the caller's expected type on to the reads
RequestedType_Passed(caller_type) == caller_type

\* line 119: expected_return_type = XAtom(0), whatever the caller passed
RequestedType(caller_type) == AnyPropertyType

\* the whole call, as the Window accessors use it
GetWindowProperty(p, caller_type, order) ==
    GetLoop(p, 0, long_length, <<>>, RequestedType(caller_type), order)

\* the same read with a chunk that holds the whole value
UnboundedRead(p, order) ==
    GetLoop(p, 0, IF p = <<>> THEN 1 ELSE Len(p[1].data) + 1, <<>>,
            AnyPropertyType, order)

SeqsUpTo(S, n) == UNION {[1..k -> S] : k \in 0..n}

\* the properties the read loop is run on: absent, text, 32-bit items, 16-bit
\* items, and a reply whose bit-width is none of the three
GetProps(order) ==
    {<<>>}
    \cup {<<[type |-> "UTF8_STRING", format |-> 8, data |-> d]>> :
             d \in SeqsUpTo({97, 233}, MaxChars)}
    \cup {<<[type |-> "STRING", format |-> 8, data |-> d]>> :
             d \in {<<>>, <<97>>, <<233>>, <<97, 98, 99, 100, 101, 102, 103, 104, 105>>}}
    \cup {<<[type |-> "CARDINAL", format |-> 32, data |-> ArrayToBytes(a, order)]>> :
             a \in SeqsUpTo({-1, 0, 1234}, MaxItems)}
    \cup {<<[type |-> "INTEGER", format |-> 16, data |-> d]>> :
             d \in {<<>>, <<1, 0>>, <<1, 0, 255, 255>>,
                    <<1, 0, 2, 0, 3, 0, 4, 0, 5, 0>>}}
    \cup {<<[type |-> "INTEGER", format |-> 24, data |-> d]>> :
             d \in {<<>>, <<1, 2, 3>>}}

\* the expected types the accessors of _interface.py pass, and one more
ExpectedTypes == {"UTF8_STRING", "CARDINAL", "WINDOW", "INTEGER"}

GetIdle ==
    /\ gprop = <<>>
    /\ expected = AnyPropertyType
    /\ expected_return_type = AnyPropertyType
    /\ long_offset = 0
    /\ chunks = <<>>
    /\ gpc = "idle"
    /\ gret = Pending

GetInit ==
    /\ gprop \in GetProps(byteorder)
    /\ expected \in ExpectedTypes
    /\ expected_return_type = expected
    /\ long_offset = 0
    /\ chunks = <<>>
    /\ gpc = "call"
    /\ gret = Pending

\* lines 111-119: the locals before the loop
GetCall ==
    /\ gpc = "call"
    /\ long_offset' = 0
    /\ chunks' = <<>>
    /\ expected_return_type' = RequestedType(expected_return_type)
    /\ gpc' = "loop"
    /\ UNCHANGED <<gprop, expected, gret>>

\* lines 121-177: one bounded read; the last one returns or raises
ReadChunk ==
    /\ gpc = "loop"
    /\ LET step == GetStep(gprop, long_offset, long_length, chunks,
                           expected_return_type, byteorder)
       IN /\ long_offset' = step.long_offset
          /\ chunks' = step.chunks
          /\ gret' = step.ret
          /\ gpc' = IF step.done THEN "done" ELSE "loop"
    /\ UNCHANGED <<gprop, expected, expected_return_type>>

-----------------------------------------------------------------------------
(* Window: the accessors of _interface.py on one window *)

PropNames ==
    {"_NET_WM_PID", "WM_CLASS", "_GTK_APPLICATION_ID", "_NET_STARTUP_ID",
     "_NET_WM_ICON", "_NET_CLIENT_LIST"}

TextProps == {"_GTK_APPLICATION_ID", "_NET_STARTUP_ID"}

\* the window tree: window -> parent, 0 for the root's parent
Parent == (1 :> 0) @@ (2 :> 1) @@ (3 :> 2)

Windows == DOMAIN Parent

RECURSIVE TreeRoot(_)
TreeRoot(w) == IF Parent[w] = 0 THEN w ELSE TreeRoot(Parent[w])

\* QueryTree: (root, parent, children); the root's parent is reported as 0
QueryTree(w) ==
    [root |-> TreeRoot(w), parent |-> Parent[w],
     children |-> {c \in Windows : Parent[c] = w}]

\* Window.is_root_window
is_root_window(w) == QueryTree(w).root = w

\* text is a sequence of code points: "", "é"
Texts == {<<>>, <<233>>}

\* ("term", "Term") and ("a", "")
ClassHints == {<<<<116, 101, 114, 109>>, <<84, 101, 114, 109>>>>, <<<<97>>, <<>>>>}

\* the process ids callers write
Pids == {1234}

\* line 255: self.pid = 2 ** 21
PlaceholderPid == 2097152

\* str.encode("utf-8"), for code points below 2048
Utf8Encode(text) ==
    Concat([i \in 1..Len(text) |->
        IF text[i] < 128 THEN <<text[i]>>
        ELSE <<192 + (text[i] \div 64), 128 + (text[i] % 64)>>])

\* bytes.decode("utf-8"), for the one- and two-byte forms
RECURSIVE Utf8Decode(_, _)
Utf8Decode(bytes, text) ==
    IF bytes = <<>> THEN Return(text)
    ELSE IF bytes[1] < 128 THEN Utf8Decode(Tail(bytes), Append(text, bytes[1]))
    ELSE IF /\ bytes[1] >= 194 /\ bytes[1] < 224 /\ Len(bytes) >= 2
            /\ bytes[2] >= 128 /\ bytes[2] < 192
         THEN Utf8Decode(Drop(bytes, 2),
                         Append(text, (bytes[1] - 192) * 64 + (bytes[2] - 128)))
         ELSE Raise("UnicodeDecodeError")

\* str.encode("ascii") / bytes.decode("ascii")
IsAscii(s) == \A i \in 1..Len(s) : s[i] < 128

Req(fn, prop) == [fn |-> fn, prop |-> prop]

\* XChangeProperty with PropMode.Replace
XChangeProperty(ps, p, type, format, bytes) ==
    [ps EXCEPT ![p] = <<[type |-> type, format |-> format, data |-> bytes]>>]

\* XDeleteProperty: deleting an absent property changes nothing
XDeleteProperty(ps, p) == [ps EXCEPT ![p] = <<>>]

\* Window.get_property: the expected type is interned and passed on
get_property(ps, p, caller_type, order) == GetWindowProperty(ps[p], caller_type, order)

get_requests(ps, p, caller_type, order) ==
    [i \in 1..GetPasses(ps[p], 0, long_length, <<>>, RequestedType(caller_type), order) |->
        Req("XGetWindowProperty", p)]

\* Window.set_property with a bytes value: nbits = 8
set_property_bytes(ps, p, type, bytes) == XChangeProperty(ps, p, type, 8, bytes)

\* Window.set_property with an array of 32-bit items: the items are repacked
\* as longs, of which the server keeps the low 32 bits
set_property_array(ps, p, type, arr, order) ==
    XChangeProperty(ps, p, type, 32, ArrayToBytes(arr, order))

\* array.array.tobytes() of what GetWindowProperty returned for ps[p]
tobytes(ps, p, arr, order) ==
    IF ps[p][1].format = 8 THEN [i \in 1..Len(arr) |-> Unsigned8(arr[i])]
    ELSE ArrayToBytes(arr, order)

\* get_text_property testing "if not value" instead of "if value is None"
get_text_property_Falsy(ps, p, order) ==
    LET v == get_property(ps, p, "UTF8_STRING", order)
    IN IF v.exc # "" THEN v
       ELSE IF v.val = <<>> \/ v.val[1] = <<>> THEN ReturnNone
       ELSE Utf8Decode(tobytes(ps, p, v.val[1], order), <<>>)

\* Window.get_text_property
get_text_property(ps, p, order) ==
    LET v == get_property(ps, p, "UTF8_STRING", order)
    IN IF v.exc # "" THEN v
       ELSE IF v.val = <<>> THEN ReturnNone
       ELSE Utf8Decode(tobytes(ps, p, v.val[1], order), <<>>)

\* Window.set_text_property
set_text_property(ps, p, text) ==
    set_property_bytes(ps, p, "UTF8_STRING", Utf8Encode(text))

\* Window.pid (getter)
pid_get(ps, order) ==
    LET v == get_property(ps, "_NET_WM_PID", "CARDINAL", order)
    IN IF v.exc # "" THEN v
       ELSE IF v.val = <<>> THEN ReturnNone
       ELSE IF v.val[1] = <<>> THEN Raise("IndexError")
       ELSE Return(v.val[1][1])

\* Window.pid (setter)
pid_set(ps, v, order) == set_property_array(ps, "_NET_WM_PID", "CARDINAL", <<v>>, order)

\* the C string starting at index i (from 1) of d
RECURSIVE StrAt(_, _)
StrAt(d, i) ==
    IF i > Len(d) \/ d[i] = 0 THEN <<>> ELSE <<d[i]>> \o StrAt(d, i + 1)

\* GetClassHint: XGetClassHint takes WM_CLASS only as a STRING of format 8,
\* and reads the instance name and the class name as two C strings
GetClassHint(ps) ==
    LET p == ps["WM_CLASS"]
    IN IF p = <<>> \/ p[1].type # "STRING" \/ p[1].format # 8 THEN ReturnNone
       ELSE LET d == p[1].data
                res_name == StrAt(d, 1)
                len_name == IF Len(res_name) = Len(d) THEN Len(d) - 1 ELSE Len(res_name)
                res_class == StrAt(d, len_name + 2)
            IN IF IsAscii(res_name) /\ IsAscii(res_class)
               THEN Return(<<res_name, res_class>>)
               ELSE Raise("UnicodeDecodeError")

\* SetClassHint: XSetClassHint writes both strings, each with its NUL
SetClassHint(ps, hint) ==
    XChangeProperty(ps, "WM_CLASS", "STRING", 8, hint[1] \o <<0>> \o hint[2] \o <<0>>)

\* Window.icon (getter)
icon_get(ps, order) ==
    LET v == get_property(ps, "_NET_WM_ICON", "CARDINAL", order)
    IN IF v.exc # "" THEN v
       ELSE IF v.val = <<>> THEN Return(EmptyDict)
       ELSE IconDecode(v.val[1], EmptyDict, order)

\* Window.all_windows
all_windows(w, ps, order) ==
    IF ~is_root_window(w) THEN Raise("AssertionError")
    ELSE LET prop == get_property(ps, "_NET_CLIENT_LIST", "WINDOW", order)
         IN IF prop.exc # "" THEN prop
            ELSE IF prop.val = <<>> THEN Raise("TypeError")
            ELSE Return(prop.val[1])

all_windows_requests(w, ps, order) ==
    <<Req("XQueryTree", "")>>
    \o (IF is_root_window(w) THEN get_requests(ps, "_NET_CLIENT_LIST", "WINDOW", order) ELSE <<>>)

\* the icon sets handed to the icon setter
IconChoices ==
    {<<>>,
     <<[size |-> <<1, 1>>, bytes |-> <<255, 0, 0, 255>>]>>,
     <<[size |-> <<2, 1>>, bytes |-> <<1, 2, 3, 4, 16, 32, 64, 128>>],
       [size |-> <<1, 1>>, bytes |-> <<1, 2, 3, 4>>]>>}

NoBackup == [pid |-> <<>>, class_hint |-> <<>>, gtk_application_id |-> <<>>, startup_id |-> <<>>]

NoProps == [p \in PropNames |-> <<>>]

NoOp == [name |-> "", prop |-> "", arg |-> <<>>]

Op(name, prop, arg) == [name |-> name, prop |-> prop, arg |-> arg]

\* the properties a window can have when a handle to it is made
WindowProps(order) ==
    {ps \in [PropNames -> {<<>>}
                 \cup {<<[type |-> "CARDINAL", format |-> 32,
                          data |-> ArrayToBytes(<<1234>>, order)]>>}
                 \cup {<<[type |-> "STRING", format |-> 8,
                          data |-> h[1] \o <<0>> \o h[2] \o <<0>>]>> : h \in ClassHints}
                 \cup {<<[type |-> "UTF8_STRING", format |-> 8,
                          data |-> Utf8Encode(t)]>> : t \in Texts}
                 \cup {<<[type |-> "WINDOW", format |-> 32,
                          data |-> ArrayToBytes(<<2, 3>>, order)]>>}] :
        /\ ps["_NET_WM_PID"] # <<>> => ps["_NET_WM_PID"][1].type = "CARDINAL"
        /\ ps["WM_CLASS"] # <<>> => ps["WM_CLASS"][1].type = "STRING"
        /\ \A p \in TextProps : ps[p] # <<>> => ps[p][1].type = "UTF8_STRING"
        /\ ps["_NET_WM_ICON"] = <<>>
        /\ ps["_NET_CLIENT_LIST"] # <<>> => ps["_NET_CLIENT_LIST"][1].type = "WINDOW"}

\* the client windows the icon setter is run on
ClientProps(order) == {ps \in WindowProps(order) : ps["_NET_CLIENT_LIST"] = <<>>}

WinIdle ==
    /\ self = 1
    /\ props = NoProps
    /\ pc = "off"
    /\ op = NoOp
    /\ ret = Pending
    /\ reqs = <<>>
    /\ new_icon = <<>>
    /\ flat = <<>>
    /\ backup = NoBackup
    /\ before = NoProps
    /\ fault = ""

WinInit ==
    /\ self \in Windows
    /\ props \in WindowProps(byteorder)
    /\ pc = "idle"
    /\ op = NoOp
    /\ ret = Pending
    /\ reqs = <<>>
    /\ new_icon = <<>>
    /\ flat = <<>>
    /\ backup = NoBackup
    /\ before = NoProps
    /\ fault = ""

SetterInit ==
    /\ self \in Windows \ {1}
    /\ props \in ClientProps(byteorder)
    /\ pc = "idle"
    /\ op = NoOp
    /\ ret = Pending
    /\ reqs = <<>>
    /\ new_icon = <<>>
    /\ flat = <<>>
    /\ backup = NoBackup
    /\ before = NoProps
    /\ fault = ""

\* an accessor that is one call: what it returns, what it leaves on the
\* server, what it asked; the locals of a finished icon setter are gone
Call(o, r, ps, rq) ==
    /\ pc = "idle"
    /\ op' = o
    /\ ret' = r
    /\ props' = ps
    /\ reqs' = rq
    /\ new_icon' = <<>>
    /\ flat' = <<>>
    /\ backup' = NoBackup
    /\ before' = NoProps
    /\ fault' = ""
    /\ UNCHANGED <<self, pc>>

WGetTextProperty ==
    \E p \in TextProps :
        Call(Op("get_text_property", p, <<>>), get_text_property(props, p, byteorder),
             props, get_requests(props, p, "UTF8_STRING", byteorder))

WSetTextProperty ==
    \E p \in TextProps, t \in Texts :
        Call(Op("set_text_property", p, <<t>>), ReturnNone,
             set_text_property(props, p, t), <<Req("XChangeProperty", p)>>)

\* Window.delete_property, and the deleters of pid, class_hint,
\* gtk_application_id, startup_id and icon, which all call it
WDeleteProperty ==
    \E p \in PropNames \ {"_NET_CLIENT_LIST"} :
        Call(Op("delete_property", p, <<>>), ReturnNone,
             XDeleteProperty(props, p), <<Req("XDeleteProperty", p)>>)

WGetPid ==
    Call(Op("pid", "_NET_WM_PID", <<>>), pid_get(props, byteorder),
         props, get_requests(props, "_NET_WM_PID", "CARDINAL", byteorder))

WSetPid ==
    \E v \in Pids :
        Call(Op("pid.setter", "_NET_WM_PID", <<v>>), ReturnNone,
             pid_set(props, v, byteorder), <<Req("XChangeProperty", "_NET_WM_PID")>>)

WGetClassHint ==
    Call(Op("class_hint", "WM_CLASS", <<>>), GetClassHint(props),
         props, <<Req("XGetClassHint", "WM_CLASS")>>)

WSetClassHint ==
    \E h \in ClassHints :
        Call(Op("class_hint.setter", "WM_CLASS", <<h>>), ReturnNone,
             SetClassHint(props, h), <<Req("XSetClassHint", "WM_CLASS")>>)

WGetIcon ==
    Call(Op("icon", "_NET_WM_ICON", <<>>), icon_get(props, byteorder),
         props, get_requests(props, "_NET_WM_ICON", "CARDINAL", byteorder))

WAllWindows ==
    Call(Op("all_windows", "_NET_CLIENT_LIST", <<>>), all_windows(self, props, byteorder),
         props, all_windows_requests(self, props, byteorder))

\* lines 248-251: backup = {p: getattr(self, p) for p in [...]}
TakeBackup(ps, order) ==
    LET a == pid_get(ps, order)
        b == GetClassHint(ps)
        c == get_text_property(ps, "_GTK_APPLICATION_ID", order)
        d == get_text_property(ps, "_NET_STARTUP_ID", order)
    IN IF a.exc # "" THEN a
       ELSE IF b.exc # "" THEN b
       ELSE IF c.exc # "" THEN c
       ELSE IF d.exc # "" THEN d
       ELSE Return([pid |-> a.val, class_hint |-> b.val,
                    gtk_application_id |-> c.val, startup_id |-> d.val])

BackupRequests(ps, order) ==
    LET a == get_requests(ps, "_NET_WM_PID", "CARDINAL", order)
        b == a \o <<Req("XGetClassHint", "WM_CLASS")>>
        c == b \o get_requests(ps, "_GTK_APPLICATION_ID", "UTF8_STRING", order)
        d == c \o get_requests(ps, "_NET_STARTUP_ID", "UTF8_STRING", order)
    IN IF pid_get(ps, order).exc # "" THEN a
       ELSE IF GetClassHint(ps).exc # "" THEN b
       ELSE IF get_text_property(ps, "_GTK_APPLICATION_ID", order).exc # "" THEN c
       ELSE d

\* lines 262-264: for prop, val in backup.items(): if val is not None: setattr
Restore(ps, bk, order) ==
    LET p1 == IF bk.pid # <<>> THEN pid_set(ps, bk.pid[1], order) ELSE ps
        p2 == IF bk.class_hint # <<>> THEN SetClassHint(p1, bk.class_hint[1]) ELSE p1
        p3 == IF bk.gtk_application_id # <<>>
              THEN set_text_property(p2, "_GTK_APPLICATION_ID", bk.gtk_application_id[1])
              ELSE p2
    IN IF bk.startup_id # <<>>
       THEN set_text_property(p3, "_NET_STARTUP_ID", bk.startup_id[1])
       ELSE p3

RestoreRequests(bk) ==
    (IF bk.pid # <<>> THEN <<Req("XChangeProperty", "_NET_WM_PID")>> ELSE <<>>)
    \o (IF bk.class_hint # <<>> THEN <<Req("XSetClassHint", "WM_CLASS")>> ELSE <<>>)
    \o (IF bk.gtk_application_id # <<>>
        THEN <<Req("XChangeProperty", "_GTK_APPLICATION_ID")>> ELSE <<>>)
    \o (IF bk.startup_id # <<>>
        THEN <<Req("XChangeProperty", "_NET_STARTUP_ID")>> ELSE <<>>)

\* Window.icon (setter), lines 238-251: build the flat array, take the backup
IconSetCall ==
    \E v \in IconChoices :
        /\ pc = "idle"
        /\ op' = Op("icon.setter", "_NET_WM_ICON", <<>>)
        /\ new_icon' = v
        /\ before' = props
        /\ LET enc == IconEncode(v, byteorder)
               bk == TakeBackup(props, byteorder)
           IN IF enc.exc # ""
              THEN /\ flat' = <<>> /\ backup' = NoBackup /\ reqs' = <<>>
                   /\ fault' = "encode" /\ ret' = enc /\ pc' = "idle"
              ELSE IF bk.exc # ""
              THEN /\ flat' = enc.val[1] /\ backup' = NoBackup
                   /\ reqs' = BackupRequests(props, byteorder)
                   /\ fault' = "backup" /\ ret' = bk /\ pc' = "idle"
              ELSE /\ flat' = enc.val[1] /\ backup' = bk.val[1]
                   /\ reqs' = BackupRequests(props, byteorder)
                   /\ fault' = "" /\ ret' = Pending /\ pc' = "set_pid"
        /\ UNCHANGED <<self, props>>

\* a statement of the setter outside the try: it changes the window, or it
\* raises and the setter is left at once
SetterStatement(at, request, ps, next) ==
    /\ pc = at
    /\ reqs' = Append(reqs, request)
    /\ \E ok \in BOOLEAN :
          IF ok
          THEN /\ props' = ps /\ pc' = next /\ UNCHANGED <<fault, ret>>
          ELSE /\ fault' = at /\ ret' = Raise("X11InternalError") /\ pc' = "idle"
               /\ UNCHANGED props
    /\ UNCHANGED <<self, op, new_icon, flat, backup, before>>

\* line 255: self.pid = 2 ** 21
IconSetPid ==
    SetterStatement("set_pid", Req("XChangeProperty", "_NET_WM_PID"),
                    pid_set(props, PlaceholderPid, byteorder), "del_class_hint")

\* IconSetDelClassHint going on to the icon write, past line 257
IconSetDelClassHint_SkipsGtk ==
    SetterStatement("del_class_hint", Req("XDeleteProperty", "WM_CLASS"),
                    XDeleteProperty(props, "WM_CLASS"), "write_icon")

\* line 256: del self.class_hint
IconSetDelClassHint ==
    SetterStatement("del_class_hint", Req("XDeleteProperty", "WM_CLASS"),
                    XDeleteProperty(props, "WM_CLASS"), "del_gtk_application_id")

\* line 257: del self.gtk_application_id
IconSetDelGtk ==
    SetterStatement("del_gtk_application_id", Req("XDeleteProperty", "_GTK_APPLICATION_ID"),
                    XDeleteProperty(props, "_GTK_APPLICATION_ID"), "write_icon")

\* IconSetWrite without the finally: a failed write leaves the setter at once
IconSetWrite_NoFinally ==
    /\ pc = "write_icon"
    /\ reqs' = Append(reqs, Req("XChangeProperty", "_NET_WM_ICON"))
    /\ \E ok \in BOOLEAN :
          IF ok
          THEN /\ props' = set_property_array(props, "_NET_WM_ICON", "CARDINAL",
                                              flat, byteorder)
               /\ pc' = "restore"
               /\ UNCHANGED <<fault, ret>>
          ELSE /\ fault' = "write_icon" /\ ret' = Raise("X11InternalError")
               /\ pc' = "idle"
               /\ UNCHANGED props
    /\ UNCHANGED <<self, op, new_icon, flat, backup, before>>

\* lines 259-260: try: self.set_property("_NET_WM_ICON", "CARDINAL", data)
IconSetWrite ==
    /\ pc = "write_icon"
    /\ reqs' = Append(reqs, Req("XChangeProperty", "_NET_WM_ICON"))
    /\ \E ok \in BOOLEAN :
          IF ok
          THEN /\ props' = set_property_array(props, "_NET_WM_ICON", "CARDINAL",
                                              flat, byteorder)
               /\ UNCHANGED fault
          ELSE /\ fault' = "write_icon" /\ UNCHANGED props
    /\ pc' = "restore"
    /\ UNCHANGED <<self, op, ret, new_icon, flat, backup, before>>

\* lines 261-264: finally: put back what the backup holds
IconSetRestore ==
    /\ pc = "restore"
    /\ props' = Restore(props, backup, byteorder)
    /\ reqs' = reqs \o RestoreRequests(backup)
    /\ ret' = IF fault = "write_icon" THEN Raise("X11InternalError") ELSE ReturnNone
    /\ pc' = "idle"
    /\ UNCHANGED <<self, op, new_icon, flat, backup, before, fault>>

\* the icon setter has returned or raised
SetterDone == pc = "idle" /\ op.name = "icon.setter"

-----------------------------------------------------------------------------
(* Display: the life cycle of the connection *)

\* the methods that use the connection, and the Xlib function each calls
\* first with self._display (a Window accessor interns the atom of a
\* property name before anything else; query_tree goes to XQueryTree)
LibFn ==
    [flush |-> "XFlush", sync |-> "XSync", set_synchronize |-> "XSynchronize",
     intern_atom |-> "XInternAtom", screen |-> "XDefaultScreenOfDisplay",
     get_property |-> "XInternAtom", set_property |-> "XInternAtom",
     delete_property |-> "XInternAtom", query_tree |-> "XQueryTree"]

Methods == DOMAIN LibFn

DpyIdle ==
    /\ display = "unset"
    /\ conn = "none"
    /\ alive = TRUE
    /\ closed = FALSE
    /\ dop = "off"
    /\ dret = Pending
    /\ dreqs = <<>>
    /\ nopen = 0
    /\ nclose = 0
    /\ ncalls = 0

DpyInit ==
    /\ display = "unset"
    /\ conn = "none"
    /\ alive = TRUE
    /\ closed = FALSE
    /\ dop = "new"
    /\ dret = Pending
    /\ dreqs = <<>>
    /\ nopen = 0
    /\ nclose = 0
    /\ ncalls = 0

\* Display.__init__: name.encode raises before _display is assigned, or
\* XOpenDisplay returns its result, which ctypes wraps in an XDisplay object
\* (restype is a subclass of c_void_p) also when it is the null pointer
DisplayNew ==
    /\ dop = "new"
    /\ \E outcome \in {"raise", "NULL", "open"} :
          /\ display' = IF outcome = "raise" THEN "unset" ELSE outcome
          /\ conn' = IF outcome = "open" THEN "open" ELSE "none"
          /\ nopen' = IF outcome = "open" THEN 1 ELSE 0
          /\ dret' = IF outcome = "raise" THEN Raise("AttributeError") ELSE ReturnNone
          /\ dreqs' = IF outcome = "raise" THEN <<>>
                      ELSE <<[fn |-> "XOpenDisplay", dpy |-> outcome]>>
    /\ dop' = "__init__"
    /\ UNCHANGED <<alive, closed, nclose, ncalls>>

\* Display.close, as called by name, by __exit__ or by __del__; an object
\* whose __init__ raised is seen by the finalizer only, and nothing is
\* called on an object after its finalizer
CloseBody(name) ==
    /\ dop \notin {"off", "new", "__del__"}
    /\ name # "__del__" => display # "unset"
    /\ alive
    /\ ncalls < MaxCalls
    /\ ncalls' = ncalls + 1
    /\ dop' = name
    /\ closed' = TRUE
    /\ IF display \in {"unset", "None"}
       THEN /\ dret' = ReturnNone /\ dreqs' = <<>>
            /\ UNCHANGED <<display, conn, alive, nclose>>
       ELSE /\ dreqs' = <<[fn |-> "XCloseDisplay", dpy |-> display]>>
            /\ nclose' = nclose + 1
            /\ IF display = "open"
               THEN /\ conn' = "closed" /\ display' = "None" /\ dret' = ReturnNone
                    /\ UNCHANGED alive
               ELSE \* XCloseDisplay(NULL) is undefined: the process is
                    \* killed, or the call comes back
                    \E survives \in BOOLEAN :
                        /\ alive' = survives
                        /\ display' = IF survives THEN "None" ELSE display
                        /\ dret' = IF survives THEN ReturnNone ELSE Raise("SIGSEGV")
                        /\ UNCHANGED conn
    /\ UNCHANGED nopen

DisplayClose == CloseBody("close")

DisplayExit == CloseBody("__exit__")

DisplayDel == CloseBody("__del__")

\* flush, sync, set_synchronize, intern_atom, screen and the Window
\* accessors: the Xlib function is called with self._display as it is
DisplayUse ==
    \E m \in Methods :
        /\ dop \notin {"off", "new", "__del__"}
        /\ display # "unset"
        /\ alive
        /\ ncalls < MaxCalls
        /\ ncalls' = ncalls + 1
        /\ dop' = m
        /\ dreqs' = <<[fn |-> LibFn[m],
                       dpy |-> IF display = "None" THEN "NULL" ELSE display]>>
        /\ IF display = "open"
           THEN dret' = ReturnNone /\ UNCHANGED alive
           ELSE \* a null display in Xlib is undefined: the process is
                \* killed, or the call comes back
                \E survives \in BOOLEAN :
                    /\ alive' = survives
                    /\ dret' = IF survives THEN ReturnNone ELSE Raise("SIGSEGV")
        /\ UNCHANGED <<display, conn, closed, nopen, nclose>>

CodecIdle ==
    /\ icons = <<>>
    /\ words = Pending
    /\ decoded = Pending
    /\ cpc = "idle"

-----------------------------------------------------------------------------
(* Specifications *)

\* the accessors of a Window
Init ==
    /\ byteorder \in ByteOrders
    /\ WinInit
    /\ CodecIdle
    /\ GetIdle
    /\ DpyIdle

Next ==
    \/ WGetTextProperty /\ UNCHANGED <<byteorder, codecVars, getVars, dpyVars>>
    \/ WSetTextProperty /\ UNCHANGED <<byteorder, codecVars, getVars, dpyVars>>
    \/ WDeleteProperty /\ UNCHANGED <<byteorder, codecVars, getVars, dpyVars>>
    \/ WGetPid /\ UNCHANGED <<byteorder, codecVars, getVars, dpyVars>>
    \/ WSetPid /\ UNCHANGED <<byteorder, codecVars, getVars, dpyVars>>
    \/ WGetClassHint /\ UNCHANGED <<byteorder, codecVars, getVars, dpyVars>>
    \/ WSetClassHint /\ UNCHANGED <<byteorder, codecVars, getVars, dpyVars>>
    \/ WGetIcon /\ UNCHANGED <<byteorder, codecVars, getVars, dpyVars>>
    \/ WAllWindows /\ UNCHANGED <<byteorder, codecVars, getVars, dpyVars>>

Spec == Init /\ [][Next]_vars

\* the icon setter, statement by statement
InitIconSet ==
    /\ byteorder \in ByteOrders
    /\ SetterInit
    /\ CodecIdle
    /\ GetIdle
    /\ DpyIdle

NextIconSet ==
    \/ IconSetCall /\ UNCHANGED <<byteorder, codecVars, getVars, dpyVars>>
    \/ IconSetPid /\ UNCHANGED <<byteorder, codecVars, getVars, dpyVars>>
    \/ IconSetDelClassHint /\ UNCHANGED <<byteorder, codecVars, getVars, dpyVars>>
    \/ IconSetDelGtk /\ UNCHANGED <<byteorder, codecVars, getVars, dpyVars>>
    \/ IconSetWrite /\ UNCHANGED <<byteorder, codecVars, getVars, dpyVars>>
    \/ IconSetRestore /\ UNCHANGED <<byteorder, codecVars, getVars, dpyVars>>

SpecIconSet == InitIconSet /\ [][NextIconSet]_vars

\* the icon codec alone
InitCodec ==
    /\ byteorder \in ByteOrders
    /\ CodecInit
    /\ GetIdle
    /\ WinIdle
    /\ DpyIdle

NextCodec ==
    \/ CodecEncode /\ UNCHANGED <<byteorder, getVars, winVars, dpyVars>>
    \/ CodecDecode /\ UNCHANGED <<byteorder, getVars, winVars, dpyVars>>

SpecCodec == InitCodec /\ [][NextCodec]_vars

\* the read loop alone
InitGet ==
    /\ byteorder \in ByteOrders
    /\ GetInit
    /\ CodecIdle
    /\ WinIdle
    /\ DpyIdle

NextGet ==
    \/ GetCall /\ UNCHANGED <<byteorder, codecVars, winVars, dpyVars>>
    \/ ReadChunk /\ UNCHANGED <<byteorder, codecVars, winVars, dpyVars>>

SpecGet == InitGet /\ [][NextGet]_vars

\* the Display life cycle alone
InitDisplay ==
    /\ byteorder \in ByteOrders
    /\ DpyInit
    /\ CodecIdle
    /\ GetIdle
    /\ WinIdle

NextDisplay ==
    \/ DisplayNew /\ UNCHANGED <<byteorder, codecVars, getVars, winVars>>
    \/ DisplayClose /\ UNCHANGED <<byteorder, codecVars, getVars, winVars>>
    \/ DisplayExit /\ UNCHANGED <<byteorder, codecVars, getVars, winVars>>
    \/ DisplayDel /\ UNCHANGED <<byteorder, codecVars, getVars, winVars>>
    \/ DisplayUse /\ UNCHANGED <<byteorder, codecVars, getVars, winVars>>

SpecDisplay == InitDisplay /\ [][NextDisplay]_vars

-----
(* C3: decoding what the setter encodes gives back the icon set: the same *)
(* sizes, and for every size the same pixels.                             *)
C3_RoundTrip == cpc = "decoded" => decoded = Return(AsDict(icons))

C3_Witness ==
    /\ cpc = "decoded"
    /\ Len(icons) = 3
    /\ decoded = Return(AsDict(icons))

(* C4: the read loop returns its chunks concatenated in read order, which *)
(* is the value one read of the whole property returns.                   *)
C4_ChunkedEqualsUnbounded ==
    gpc = "done" => /\ gret = UnboundedRead(gprop, byteorder)
                    /\ gret.exc = "" /\ gret.val # <<>> => gret.val[1] = Concat(chunks)

C4_Witness ==
    /\ gpc = "done"
    /\ Len(chunks) >= 2
    /\ gret = UnboundedRead(gprop, byteorder)

\* the word the claim gives for a pixel: alpha in the most significant byte,
\* then red, green, blue, as a 32-bit pattern read as a signed integer
ARGBWord(red, green, blue, alpha) ==
    16777216 * Signed8(alpha) + 65536 * red + 256 * green + blue

ARGBWords(bytes) ==
    [i \in 1..(Len(bytes) \div 4) |->
        ARGBWord(bytes[4 * i - 3], bytes[4 * i - 2], bytes[4 * i - 1], bytes[4 * i])]

ARGBEncoding(value) ==
    Concat([i \in 1..Len(value) |->
        <<value[i].size[1], value[i].size[2]>> \o ARGBWords(value[i].bytes)])

(* C5: every pixel becomes the word (alpha<<24)|(red<<16)|(green<<8)|blue, *)
(* after the two words width, height of its image.                         *)
C5_ARGBPacking == cpc = "encoded" => words = Return(ARGBEncoding(icons))

(* C6: a get returns the items when the bit-width is 8, 16 or 32, raises  *)
(* the unsupported-format error for any other width, and returns no value *)
(* without an error for an absent property.                               *)
C6_FormatHandling ==
    gpc = "done" =>
        IF gprop = <<>> THEN gret = ReturnNone
        ELSE IF gprop[1].format \in {8, 16, 32}
             THEN gret.exc = "" /\ gret.val # <<>>
             ELSE gret = Raise("RuntimeError")

(* C1: when the process id and the class hint are both present before the *)
(* icon setter is called, both read back as before once the setter has    *)
(* returned or raised, whether the _NET_WM_ICON write succeeded or failed. *)
C1_PidAndClassHintRestored ==
    (/\ SetterDone
     /\ fault \in {"", "write_icon", "encode", "backup"}
     /\ before["_NET_WM_PID"] # <<>>
     /\ before["WM_CLASS"] # <<>>)
    => /\ pid_get(props, byteorder) = pid_get(before, byteorder)
       /\ GetClassHint(props) = GetClassHint(before)

C1_Witness ==
    /\ SetterDone
    /\ fault = "write_icon"
    /\ ret.exc # ""
    /\ pid_get(before, byteorder) = Return(1234)
    /\ GetClassHint(before) = Return(<<<<116, 101, 114, 109>>, <<84, 101, 114, 109>>>>)
    /\ pid_get(props, byteorder) = Return(1234)
    /\ GetClassHint(props) = Return(<<<<116, 101, 114, 109>>, <<84, 101, 114, 109>>>>)

SnapshotProps == {"_NET_WM_PID", "WM_CLASS", "_GTK_APPLICATION_ID", "_NET_STARTUP_ID"}

(* C2: each of process id, class hint, GTK application id and startup id  *)
(* that was absent before the icon setter was called is absent after it   *)
(* has finished (with every request but the icon write succeeding).       *)
C2_AbsentStaysAbsent ==
    (SetterDone /\ fault \in {"", "write_icon"})
    => \A p \in SnapshotProps : before[p] = <<>> => props[p] = <<>>

(* C7: under any sequence of close(), __exit__ and __del__ on a Display,  *)
(* also one already closed or never opened, no call raises and            *)
(* XCloseDisplay is called at most once per display that was opened.      *)
C7_CloseIdempotent ==
    /\ nclose <= nopen
    /\ dop \in {"close", "__exit__", "__del__"} => dret.exc = "" /\ alive

(* C8: once close() has been called on a connection, every later         *)
(* operation on it raises UseAfterClose and makes no call into Xlib.      *)
C8_UseAfterClose ==
    (closed /\ nopen = 1 /\ dop \in Methods)
    => dret = Raise("UseAfterClose") /\ dreqs = <<>>

(* C9: a text property that is absent reads back as None and not as the  *)
(* empty string; after set_text_property(p, "") the property exists and  *)
(* reads back as the empty string; a read returns None only when the      *)
(* property is absent.                                                    *)
C9_AbsentVsEmpty ==
    \A p \in TextProps :
        /\ props[p] = <<>> => get_text_property(props, p, byteorder) = ReturnNone
        /\ (pc = "idle" /\ op = Op("set_text_property", p, <<<<>>>>))
           => /\ props[p] # <<>>
              /\ get_text_property(props, p, byteorder) = Return(<<>>)
        /\ (pc = "idle" /\ op = Op("get_text_property", p, <<>>))
           => (ret = ReturnNone <=> props[p] = <<>>)

C9_Witness ==
    /\ pc = "idle"
    /\ op = Op("set_text_property", "_GTK_APPLICATION_ID", <<<<>>>>)
    /\ get_text_property(props, "_GTK_APPLICATION_ID", byteorder) = Return(<<>>)
    /\ props["_NET_STARTUP_ID"] = <<>>
    /\ get_text_property(props, "_NET_STARTUP_ID", byteorder) = ReturnNone

\* one handle per element of _NET_CLIENT_LIST, in order
ClientList(ps, order) ==
    IF ps["_NET_CLIENT_LIST"] = <<>> THEN <<>>
    ELSE ArrayFromBytes(ps["_NET_CLIENT_LIST"][1].data, order)

(* C10: all_windows on a window that is not the root of its tree raises   *)
(* the not-root error without reading _NET_CLIENT_LIST; on the root it    *)
(* returns one handle per element of _NET_CLIENT_LIST, in order.          *)
C10_AllWindows ==
    (pc = "idle" /\ op.name = "all_windows")
    => IF self # TreeRoot(self)
       THEN /\ ret = Raise("AssertionError")
            /\ \A i \in 1..Len(reqs) : reqs[i].fn # "XGetWindowProperty"
       ELSE ret = Return(ClientList(props, byteorder))

\* what the four accessors of the snapshot read from a window
Snapshot(ps, order) ==
    [pid |-> pid_get(ps, order),
     class_hint |-> GetClassHint(ps),
     gtk_application_id |-> get_text_property(ps, "_GTK_APPLICATION_ID", order),
     startup_id |-> get_text_property(ps, "_NET_STARTUP_ID", order)]

SnapshotKeys == {"pid", "class_hint", "gtk_application_id", "startup_id"}

(* C11: once the snapshot has been taken, if a later statement of the     *)
(* icon setter fails (the placeholder pid write, either delete, or the    *)
(* icon write), every snapshotted property that was present reads back    *)
(* with its snapshotted value when the setter exits.                      *)
C11_CleanupOnEveryExit ==
    (/\ SetterDone
     /\ fault \in {"set_pid", "del_class_hint", "del_gtk_application_id", "write_icon"})
    => \A k \in SnapshotKeys :
          backup[k] # <<>> => Snapshot(props, byteorder)[k] = Return(backup[k][1])

IsRead(r) == r.fn \in {"XGetWindowProperty", "XGetClassHint"}

PidWrite == Req("XChangeProperty", "_NET_WM_PID")

IconWrite == Req("XChangeProperty", "_NET_WM_ICON")

\* the positions in the request log of the _NET_WM_ICON write attempt
IconWrites == {k \in 1..Len(reqs) : reqs[k] = IconWrite}

\* a write that puts a snapshotted value back: the class hint, the GTK
\* application id, the startup id, or a process id after the placeholder's
IsRestoringWrite(i) ==
    \/ reqs[i] \in {Req("XSetClassHint", "WM_CLASS"),
                    Req("XChangeProperty", "_GTK_APPLICATION_ID"),
                    Req("XChangeProperty", "_NET_STARTUP_ID")}
    \/ reqs[i] = PidWrite /\ \E j \in 1..(i - 1) : reqs[j] = PidWrite

(* C12: in every execution of the icon setter the snapshot reads of       *)
(* process id, class hint, GTK application id and startup id all precede  *)
(* the first mutation; the placeholder pid write and the two deletes      *)
(* precede the _NET_WM_ICON write; every restoring write follows the      *)
(* _NET_WM_ICON write attempt; and when the icon write is issued the      *)
(* window has no class hint, no GTK application id and the placeholder    *)
(* process id.                                                            *)
C12_RequestOrder ==
    op.name = "icon.setter" =>
        /\ \A i, j \in 1..Len(reqs) : (i < j /\ IsRead(reqs[j])) => IsRead(reqs[i])
        /\ \A m \in 1..Len(reqs) :
              ~IsRead(reqs[m]) =>
                 /\ \E i \in 1..(m - 1) : reqs[i] = Req("XGetWindowProperty", "_NET_WM_PID")
                 /\ \E i \in 1..(m - 1) : reqs[i] = Req("XGetClassHint", "WM_CLASS")
                 /\ \E i \in 1..(m - 1) :
                       reqs[i] = Req("XGetWindowProperty", "_GTK_APPLICATION_ID")
                 /\ \E i \in 1..(m - 1) :
                       reqs[i] = Req("XGetWindowProperty", "_NET_STARTUP_ID")
        /\ \A k \in IconWrites :
              /\ \E i \in 1..(k - 1) : reqs[i] = PidWrite
              /\ \E i \in 1..(k - 1) : reqs[i] = Req("XDeleteProperty", "WM_CLASS")
              /\ \E i \in 1..(k - 1) : reqs[i] = Req("XDeleteProperty", "_GTK_APPLICATION_ID")
        /\ \A i \in 1..Len(reqs) :
              IsRestoringWrite(i) => \E k \in IconWrites : k < i
        /\ pc = "write_icon" =>
              /\ GetClassHint(props) = ReturnNone
              /\ props["WM_CLASS"] = <<>>
              /\ props["_GTK_APPLICATION_ID"] = <<>>
              /\ pid_get(props, byteorder) = Return(PlaceholderPid)

C12_Witness ==
    /\ SetterDone
    /\ fault = ""
    /\ \A k \in SnapshotKeys : backup[k] # <<>>
    /\ IconWrites # {}
    /\ \E i \in 1..Len(reqs) : reqs[i] = PidWrite /\ IsRestoringWrite(i)
    /\ \A p \in {"WM_CLASS", "_GTK_APPLICATION_ID", "_NET_STARTUP_ID"} :
          \E i \in 1..Len(reqs) : reqs[i].prop = p /\ IsRestoringWrite(i)

\* a window that holds p under the name of a text property
AsStartupId(p) == [NoProps EXCEPT !["_NET_STARTUP_ID"] = p]

\* the property p with its type atom replaced by t
Retyped(p, t) == <<[p[1] EXCEPT !.type = t]>>

(* C13: the result of a property get does not depend on the expected     *)
(* type the caller passes: every bounded read requests the any-type       *)
(* wildcard (atom 0), so gets that differ only in the expected type       *)
(* return the same value, and a property stored with another type than    *)
(* the expected one (such as a non-UTF8_STRING property read through      *)
(* get_text_property) is returned, as it would be were its type the       *)
(* expected one, and is not reported absent or rejected.                  *)
C13_ExpectedTypeIgnored ==
    /\ gpc \in {"loop", "done"} => expected_return_type = AnyPropertyType
    /\ gpc = "done" =>
          /\ \A t \in ExpectedTypes : gret = GetWindowProperty(gprop, t, byteorder)
          /\ (gprop # <<>> /\ gprop[1].type # expected) =>
                /\ gret # ReturnNone
                /\ gret = GetWindowProperty(Retyped(gprop, expected), expected, byteorder)
                /\ gprop[1].format \in {8, 32} => gret.exc = "" /\ gret.val # <<>>
          /\ (gprop # <<>> /\ gprop[1].type # "UTF8_STRING") =>
                LET text == get_text_property(AsStartupId(gprop), "_NET_STARTUP_ID",
                                              byteorder)
                IN /\ text # ReturnNone
                   /\ text = get_text_property(AsStartupId(Retyped(gprop, "UTF8_STRING")),
                                               "_NET_STARTUP_ID", byteorder)

C13_Witness ==
    /\ gpc = "done"
    /\ expected = "UTF8_STRING"
    /\ gprop # <<>>
    /\ gprop[1].type = "STRING"
    /\ gret = Return(<<97, 98, 99, 100, 101, 102, 103, 104, 105>>)
    /\ get_text_property(AsStartupId(gprop), "_NET_STARTUP_ID", byteorder)
          = Return(<<97, 98, 99, 100, 101, 102, 103, 104, 105>>)

====
